---- MODULE Spec2Model ----
(***************************************************************************)
(* A model of the dnl-aio download manager: the chunk planner              *)
(* (AsyncDownloader.calculate_chunks), the multi-connection download       *)
(* engine (AsyncDownloader.download_file / download_chunk), the protocol   *)
(* handlers and their registry (ProtocolManager), and the download ledger  *)
(* (DownloadTracker) as the CLI drives it.                                 *)
(*                                                                         *)
(* Nine specifications share the variables:                                *)
(*   SpecPlan      calculate_chunks applied to bounded inputs              *)
(*   Spec          one transfer, from the CLI's call to the ledger         *)
(*   SpecRegistry  the same transfer over a wider set of URLs, in one      *)
(*                 environment                                             *)
(*   SpecLive      SpecRegistry with the event loop's scheduling           *)
(*   SpecLedger    the ledger's operations called in any order             *)
(*   SpecBatch     the tasks of one DownloadCLI.batch_download             *)
(*   SpecPlanAny   calculate_chunks applied to any integers                *)
(*   SpecShared    several downloads through the one HTTPHandler           *)
(*   SpecChecksum  verify_checksum applied to bounded files                *)
(***************************************************************************)
EXTENDS Integers, Sequences, FiniteSets, TLC

\* ------------------------------------------------------------------ bounds
\* SpecPlan: byte lengths 1..MaxPlanLen, connection counts 1..MaxPlanConn
MaxPlanLen == 130
MaxPlanConn == 64
\* Spec: the resource's byte length, the connections per file
MaxSize == 2
MaxConn == 2
\* Spec: the configured block sizes tried: byte by byte, and two bytes at a time
ChunkSizes == {1, 2}
\* SpecLedger: the records made in one run, and the length of the history
MaxRecords == 2
\* SpecBatch: the urls of one batch
MaxBatch == 4
\* SpecPlanAny: the largest absolute value of the planner's two arguments
MaxAnyLen == 4
MaxAnyConn == 3
\* SpecShared: the downloads running at once through the one HTTPHandler
MaxShared == 3
\* SpecChecksum: the file's length, the calls of verify_checksum
MaxFileLen == 2
MaxChecks == 2

\* ------------------------------------------------------------------ state
VARIABLES
    \* --- environment
    resource_size,      \* the true byte length of the resource on the server
    config,             \* DownloadConfig: chunk_size, max_connections_per_file
    m_url,              \* the url handed to DownloadCLI.download_file
    dest,               \* the destination path now: missing | file | dir
    file_data,          \* the destination file's bytes (0 = never written)
    \* --- AsyncDownloader
    session,            \* self.session: none | open | closed
    d_pc,               \* download_file: idle | probe | open | gather | done
    file_size,          \* download_file's file_info['size']
    connections,        \* download_file's resolved connection count
    chunks,             \* calculate_chunks' result, <<>> before planning
    fh_pos,             \* the shared file handle's position
    t_pc,               \* per chunk task: request | iter | seeked | done | failed
    t_bytes,            \* per chunk task: bytes_downloaded
    t_body,             \* per chunk task: the response body not yet received
    t_block,            \* per chunk task: the block between its seek and its write
    last_write,         \* the latest write on the file: task, intended and real offset
    progress_done,      \* the rich Progress task's completed count
    t_err,              \* per chunk task: the exception it raised, 0 for none
    d_result,           \* download_file's outcome: none | true | false | raised
    d_error,            \* the message download_file logged on failure
    d_cause,            \* the chunk exception that message carries, 0 for none
    \* --- HTTPHandler / CLI
    h_pc,               \* idle | probe | download | aexit | returned | raised | tracked | dropped
                        \* (TorrentHandler: torrent | seeding; YouTubeHandler: ydl;
                        \* cancelled after an interrupt)
    probe_resp,         \* the response to the latest header probe
    file_info,          \* get_file_info's latest result
    heap,               \* the DownloadInfo objects, by reference
    h_ref,              \* the handler's download_info (0 = not created)
    \* --- DownloadTracker
    active_downloads,   \* url -> reference into heap (0 = no entry)
    history,            \* the in-memory history: asdict snapshots
    history_file,       \* the persisted history.json
    \* --- DownloadCLI.batch_download
    b_urls,             \* the number of urls given to batch_download
    b_pc,               \* per url's task: created | running | returned | none
    \* --- AsyncDownloader.verify_checksum
    v_calls,            \* the calls made: expected checksum and returned boolean
    \* --- one HTTPHandler (one AsyncDownloader) used by several downloads at once
    s_sessions,         \* the ClientSession objects created so far: open | closed
    s_downloader,       \* the handler's downloader: its session attribute (index
                        \* into s_sessions, 0 for None) and its executor
    s_pc,               \* per download: created | entered | probed | leaving | exited
    s_ok,               \* per download: TRUE while no operation of it has failed
    \* --- the tracker driven call by call (SpecLedger)
    l_last              \* the last call of the tracker: its name, its url, and
                        \* whether the url was a key of active_downloads
vars == <<resource_size, config, m_url, dest, file_data, session, d_pc, file_size,
          connections, chunks, fh_pos, t_pc, t_bytes, t_body, t_block, last_write,
          progress_done, t_err, d_result, d_error, d_cause, h_pc, probe_resp, file_info, heap, h_ref,
          active_downloads, history, history_file, b_urls, b_pc, v_calls,
          s_sessions, s_downloader, s_pc, s_ok, l_last>>

env_vars == <<resource_size, config, m_url>>
fs_vars == <<dest, file_data>>
task_vars == <<fh_pos, t_pc, t_bytes, t_body, t_block, last_write, progress_done, t_err>>
dl_vars == <<d_pc, file_size, connections, chunks, d_result, d_error, d_cause>>
handler_vars == <<h_pc, probe_resp, file_info, heap, h_ref, session>>
ledger_vars == <<active_downloads, history, history_file>>
batch_vars == <<b_urls, b_pc>>
shared_vars == <<s_sessions, s_downloader, s_pc, s_ok>>

\* ------------------------------------------------------------------ helpers
Min(a, b) == IF a < b THEN a ELSE b
Max(a, b) == IF a > b THEN a ELSE b

RECURSIVE SumSeq(_)
SumSeq(s) == IF s = <<>> THEN 0 ELSE Head(s) + SumSeq(Tail(s))

\* ------------------------------------------------------------------ ChunkPlanner
\* A planner that forgets the remainder: the last range is as long as the others.
calculate_chunks_no_remainder(fsize, conns) ==
    LET chunk_size == fsize \div conns IN
    [i \in 1..conns |->
        LET start == (i - 1) * chunk_size IN
        [start |-> start, end |-> start + chunk_size - 1]]

\* A planner whose ranges end one byte late (an exclusive end taken as inclusive).
calculate_chunks_exclusive_end(fsize, conns) ==
    LET chunk_size == fsize \div conns IN
    [i \in 1..conns |->
        LET start == (i - 1) * chunk_size IN
        [start |-> start,
         end |-> IF i - 1 < conns - 1 THEN start + chunk_size ELSE fsize - 1]]

\* AsyncDownloader.calculate_chunks: range(connections) is 0-based, the sequence
\* here 1-based, so index i of the model is the code's i - 1.
calculate_chunks(fsize, conns) ==
    LET chunk_size == fsize \div conns IN
    [i \in 1..conns |->
        LET start == (i - 1) * chunk_size IN
        [start |-> start,
         end |-> IF i - 1 < conns - 1 THEN start + chunk_size - 1 ELSE fsize - 1]]


\* ------------------------------------------------------------------ SpecPlan
\* The planner alone: the inputs are drawn in PlanInit, PlanApply is the call.
\* A call has ended: download_file's and download_chunk's locals are gone
EndCall ==
    /\ d_pc' = "idle" /\ file_size' = 0 /\ connections' = 0 /\ chunks' = <<>>
    /\ fh_pos' = 0
    /\ t_pc' = <<>> /\ t_bytes' = <<>> /\ t_body' = <<>> /\ t_block' = <<>>
    /\ last_write' = [task |-> 0, intended |-> 0, offset |-> 0, len |-> 0]
    /\ progress_done' = 0 /\ d_result' = "none" /\ d_error' = "None"
    /\ t_err' = <<>> /\ d_cause' = 0
    /\ probe_resp' = [ok |-> FALSE, has_length |-> FALSE, numeric |-> FALSE, length |-> 0]
    /\ file_info' = [called |-> FALSE, err |-> FALSE, size |-> 0]

\* Nothing has been started: no session, no handler call, an empty ledger
Idle ==
    /\ session = "none" /\ d_pc = "idle" /\ fh_pos = 0
    /\ t_pc = <<>> /\ t_bytes = <<>> /\ t_body = <<>> /\ t_block = <<>>
    /\ last_write = [task |-> 0, intended |-> 0, offset |-> 0, len |-> 0]
    /\ progress_done = 0 /\ d_result = "none" /\ d_error = "None"
    /\ t_err = <<>> /\ d_cause = 0
    /\ h_pc = "idle"
    /\ probe_resp = [ok |-> FALSE, has_length |-> FALSE, numeric |-> FALSE, length |-> 0]
    /\ file_info = [called |-> FALSE, err |-> FALSE, size |-> 0]
    /\ heap = <<>> /\ h_ref = 0
    /\ history = <<>>
    /\ history_file = [valid |-> TRUE, entries |-> <<>>]
    /\ b_pc = <<>>
    /\ v_calls = <<>>
    /\ s_sessions = <<>>
    /\ s_downloader = [session |-> 0, executor |-> "running"]
    /\ s_pc = <<>> /\ s_ok = <<>>
    /\ l_last = [op |-> "none", url |-> <<>>, active |-> FALSE]

\* ------------------------------------------------------------------ URLs
\* A URL is the sequence of its pieces: the scheme, the host, and possibly a
\* ".torrent" ending. str.startswith / str.endswith read the first / last piece.
Schemes == {"http://", "https://", "magnet:", "ftp://", "//"}
Hosts == {"a", "youtube.com"}
Endings == {<<>>, <<".torrent">>}
UrlSpace == {<<s, h>> \o e : s \in Schemes, h \in Hosts, e \in Endings}

startswith(url, prefix) == url # <<>> /\ url[1] = prefix
endswith(url, suffix) == url # <<>> /\ url[Len(url)] = suffix

\* The urls given to the CLI in Spec: one per outcome of the registry's lookup
HUrl == <<"http://", "a">>
Urls == {HUrl, <<"magnet:", "a">>, <<"//", "youtube.com">>, <<"ftp://", "a">>}

PlanInit ==
    /\ Idle
    /\ b_urls = 0
    /\ dest = "missing" /\ file_data = <<>>
    /\ resource_size = 0
    /\ config = [chunk_size |-> 1, max_connections_per_file |-> 1]
    /\ m_url = HUrl
    /\ active_downloads = [u \in UrlSpace |-> 0]
    /\ file_size \in 1..MaxPlanLen
    /\ connections \in 1..MaxPlanConn
    /\ chunks = <<>>

PlanApply ==
    /\ chunks = <<>>
    /\ chunks' = calculate_chunks(file_size, connections)
    /\ UNCHANGED <<env_vars, l_last, batch_vars, v_calls, shared_vars, fs_vars, task_vars, handler_vars, ledger_vars,
                   d_pc, file_size, connections, d_result, d_error, d_cause>>

PlanNext == PlanApply

SpecPlan == PlanInit /\ [][PlanNext]_vars


\* ------------------------------------------------------------------ the server
\* The resource's bytes: the byte at offset k (0-based) has the value k + 1, so a
\* byte written at the wrong offset shows in file_data.
Resource == [k \in 1..resource_size |-> k]

\* Resource bytes at offsets lo..hi (empty when lo > hi)
Slice(lo, hi) == [k \in 1..(Min(hi, resource_size - 1) - lo + 1) |-> lo + k]

\* What a server may answer to "Range: bytes=start-end" with a success status:
\* the range (206), the range cut short, or the whole resource (200, header ignored).
BodyModes == {"range", "short", "full"}
ServerBody(mode, r) ==
    CASE mode = "range" -> Slice(r.start, r.end)
      [] mode = "short" -> Slice(r.start, r.end - 1)
      [] mode = "full"  -> Resource

\* What a server may answer to the HEAD probe.
ProbeResponses ==
    { [ok |-> FALSE, has_length |-> FALSE, numeric |-> FALSE, length |-> 0],
      [ok |-> TRUE,  has_length |-> FALSE, numeric |-> FALSE, length |-> 0],
      [ok |-> TRUE,  has_length |-> TRUE,  numeric |-> FALSE, length |-> 0],
      [ok |-> TRUE,  has_length |-> TRUE,  numeric |-> TRUE,  length |-> resource_size] }

\* ------------------------------------------------------------------ get_file_info
\* A probe that swallows a malformed content-length and reports size 0.
get_file_info_lenient(sess, resp) ==
    IF sess = "none" \/ ~resp.ok
    THEN [called |-> TRUE, err |-> TRUE, size |-> 0]
    ELSE [called |-> TRUE, err |-> FALSE,
          size |-> IF resp.has_length /\ resp.numeric THEN resp.length ELSE 0]

\* AsyncDownloader.get_file_info: no session, a failed request or an error status
\* raise DownloadError; headers.get('content-length', 0) makes an absent header
\* size 0; int() of a non-numeric header raises, which becomes DownloadError.
get_file_info(sess, resp) ==
    IF sess = "none" \/ ~resp.ok
    THEN [called |-> TRUE, err |-> TRUE, size |-> 0]
    ELSE IF ~resp.has_length
    THEN [called |-> TRUE, err |-> FALSE, size |-> 0]
    ELSE IF ~resp.numeric
    THEN [called |-> TRUE, err |-> TRUE, size |-> 0]
    ELSE [called |-> TRUE, err |-> FALSE, size |-> resp.length]

\* ------------------------------------------------------------------ the file
\* truncate(file_size) on the freshly opened (empty) file: file_size zero bytes
Truncated(n) == [k \in 1..n |-> 0]

\* write(block) at position pos: overwrites, and extends the file when needed
WriteAt(data, pos, block) ==
    [k \in 1..Max(Len(data), pos + Len(block)) |->
        IF k > pos /\ k <= pos + Len(block) THEN block[k - pos]
        ELSE IF k <= Len(data) THEN data[k] ELSE 0]

\* A cleanup that leaves the partial file in place.
unlink_if_exists_keep(d) == d

\* download_file's except branch: if output_path.exists(): output_path.unlink().
\* A directory exists and cannot be unlinked: unlink raises, the path stays.
unlink_if_exists(d) == IF d = "file" THEN "missing" ELSE d

\* ------------------------------------------------------------------ gather
Resolved(i) == t_pc[i] \in {"done", "failed"}

\* A barrier that gives up as soon as one task has failed.
AllResolved_first_error ==
    \/ \E i \in DOMAIN t_pc : t_pc[i] = "failed"
    \/ \A i \in DOMAIN t_pc : Resolved(i)

\* asyncio.gather(*chunk_tasks, return_exceptions=True) returns when every task
\* has returned or raised
AllResolved == \A i \in DOMAIN t_pc : Resolved(i)

\* errors = [r for r in results if isinstance(r, Exception)]; if errors: raise
HasErrors(tp) == \E i \in DOMAIN tp : tp[i] = "failed"

\* A size check that only catches a short total.
SizeMismatch_short_only(total, fsize) == total < fsize

\* if total_downloaded != file_size: raise DownloadError("Download size mismatch")
SizeMismatch(total, fsize) == total # fsize

\* An error check that reports the exception raised first in time.
first_error_in_time(te) == 1

\* errors = [r for r in results if isinstance(r, Exception)]; errors[0]. The
\* results are in the order of the chunk tasks handed to gather. An exception
\* object is named by its rank among the exceptions raised in this download.
first_error(te) == SelectSeq(te, LAMBDA e : e # 0)[1]

\* total_downloaded = sum(r for r in results if isinstance(r, int))
total_downloaded(tp, tb) ==
    SumSeq([i \in DOMAIN tp |-> IF tp[i] = "done" THEN tb[i] ELSE 0])


\* ------------------------------------------------------------------ DownloadInfo
Statuses == {"starting", "downloading", "completed", "failed"}

\* HTTPHandler.download's DownloadInfo(...): the fields the model follows.
\* Optional fields hold "None" (file_size: -1) until they are set.
NewDownloadInfo(url, ftype) ==
    [url |-> url, file_type |-> ftype, status |-> "starting", progress |-> 0,
     started_at |-> "datetime", completed_at |-> "None", file_size |-> -1,
     error |-> "None"]

\* A success branch that sets the status and nothing else
AfterDownload_status_only(info, success) ==
    IF success
    THEN [info EXCEPT !.status = "completed"]
    ELSE [info EXCEPT !.status = "failed", !.error = "Download failed"]

\* An else branch that records the error and leaves the status as it was
AfterDownload_keep_downloading(info, success) ==
    IF success
    THEN [info EXCEPT !.status = "completed", !.progress = 100,
                      !.completed_at = "datetime"]
    ELSE [info EXCEPT !.error = "Download failed"]

\* HTTPHandler.download, after download_file has returned: if success / else
\* (TorrentHandler and YouTubeHandler end their try block with the same three
\* assignments)
AfterDownload(info, success) ==
    IF success
    THEN [info EXCEPT !.status = "completed", !.progress = 100,
                      !.completed_at = "datetime"]
    ELSE [info EXCEPT !.status = "failed", !.error = "Download failed"]

\* HTTPHandler.download's except branch: status failed, error = str(e)
OnException(info, msg) == [info EXCEPT !.status = "failed", !.error = msg]

\* ------------------------------------------------------------------ HTTPHandler
\* download_info = DownloadInfo(...); async with self.downloader: (__aenter__
\* opens the session)
HStart ==
    /\ h_pc = "idle"
    /\ heap' = Append(heap, NewDownloadInfo(m_url, "http"))
    /\ h_ref' = Len(heap) + 1
    /\ session' = "open"
    /\ h_pc' = "probe"
    /\ UNCHANGED <<env_vars, l_last, batch_vars, v_calls, shared_vars, fs_vars, task_vars, dl_vars, ledger_vars,
                   probe_resp, file_info>>

\* file_info = await self.downloader.get_file_info(url); file_size, metadata and
\* status = 'downloading' on success. DownloadError leaves the with block
\* (__aexit__ closes the session) and reaches the except branch, which re-raises.
HGetFileInfo(resp) ==
    /\ h_pc = "probe"
    /\ LET fi == get_file_info(session, resp) IN
        /\ probe_resp' = resp
        /\ file_info' = fi
        /\ IF fi.err
           THEN /\ heap' = [heap EXCEPT ![h_ref] = OnException(@, "Failed to get file info")]
                /\ session' = "closed"
                /\ h_pc' = "raised"
                /\ d_pc' = d_pc
           ELSE /\ heap' = [heap EXCEPT ![h_ref] =
                                [@ EXCEPT !.file_size = fi.size, !.status = "downloading"]]
                /\ session' = session
                /\ h_pc' = "download"
                /\ d_pc' = "probe"
    /\ UNCHANGED <<env_vars, l_last, batch_vars, v_calls, shared_vars, fs_vars, task_vars, ledger_vars, h_ref,
                   file_size, connections, chunks, d_result, d_error, d_cause>>

\* ------------------------------------------------------------------ download_file
\* The except branch of download_file: log, unlink the path if it exists, return
\* False. output_path is still the caller's argument when the failure precedes
\* Path(output_path); the handler passes a Path. unlink() of a directory raises,
\* and that exception leaves download_file.
FailCause(msg, cause) ==
    /\ d_error' = msg
    /\ d_cause' = cause
    /\ dest' = unlink_if_exists(dest)
    /\ file_data' = IF dest = "file" THEN <<>> ELSE file_data
    /\ d_result' = IF dest = "dir" THEN "raised" ELSE "false"
    /\ d_pc' = "done"

\* A failure that is not a chunk task's
Fail(msg) == FailCause(msg, 0)

\* file_info = await self.get_file_info(url); if not file_size: raise
DGetFileInfo(resp) ==
    /\ d_pc = "probe"
    /\ LET fi == get_file_info(session, resp) IN
        /\ probe_resp' = resp
        /\ file_info' = fi
        /\ IF fi.err
           THEN Fail("Failed to get file info") /\ file_size' = file_size
           ELSE IF fi.size = 0
           THEN Fail("File size unknown") /\ file_size' = fi.size
           ELSE /\ file_size' = fi.size
                /\ d_pc' = "open"
                /\ UNCHANGED <<fs_vars, d_result, d_error, d_cause>>
    /\ UNCHANGED <<env_vars, l_last, batch_vars, v_calls, shared_vars, task_vars, ledger_vars, h_pc, heap, h_ref, session,
                   connections, chunks>>


\* SystemInfo.cpu_count = os.cpu_count() or 1
cpu_count == 1

\* SystemInfo.get_optimal_connections
get_optimal_connections == Min(Max(cpu_count * 2, 4), 16)

\* connections = connections or self.system_info.get_optimal_connections()
resolve_connections(c) == IF c # 0 THEN c ELSE get_optimal_connections

\* Path(output_path), mkdir of the parent, calculate_chunks, open(output_path, 'wb'),
\* truncate(file_size), the Progress task, and the chunk coroutines handed to
\* gather. Opening a directory raises, which reaches the except branch.
DOpen ==
    /\ d_pc = "open"
    /\ connections' = resolve_connections(config.max_connections_per_file)
    /\ chunks' = calculate_chunks(file_size, connections')
    /\ IF dest = "dir"
       THEN /\ Fail("Is a directory")
            /\ UNCHANGED task_vars
       ELSE /\ dest' = "file"
            /\ file_data' = Truncated(file_size)
            /\ fh_pos' = 0
            /\ t_pc' = [i \in 1..connections' |-> "request"]
            /\ t_bytes' = [i \in 1..connections' |-> 0]
            /\ t_body' = [i \in 1..connections' |-> <<>>]
            /\ t_block' = [i \in 1..connections' |-> <<>>]
            /\ progress_done' = 0
            /\ t_err' = [i \in 1..connections' |-> 0]
            /\ d_pc' = "gather"
            /\ UNCHANGED <<last_write, d_result, d_error, d_cause>>
    /\ UNCHANGED <<env_vars, l_last, batch_vars, v_calls, shared_vars, handler_vars, ledger_vars, file_size>>

\* ------------------------------------------------------------------ SpecPlanAny
\* The planner called with any integers, the invalid ones included.
\* file_size // connections raises ZeroDivisionError for connections = 0;
\* range(connections) is empty for connections < 0. Nothing else is checked.
calculate_chunks_call(fsize, conns) ==
    IF conns = 0
    THEN [raised |-> "ZeroDivisionError", chunks |-> <<>>]
    ELSE [raised |-> "None", chunks |-> calculate_chunks(fsize, conns)]

PlanAnyInit ==
    /\ Idle
    /\ b_urls = 0
    /\ dest = "missing" /\ file_data = <<>>
    /\ resource_size = 0
    /\ config = [chunk_size |-> 1, max_connections_per_file |-> 1]
    /\ m_url = HUrl
    /\ active_downloads = [u \in UrlSpace |-> 0]
    /\ file_size \in (0 - MaxAnyLen)..MaxAnyLen
    /\ connections \in (0 - MaxAnyConn)..MaxAnyConn
    /\ chunks = <<>>

\* AsyncDownloader.calculate_chunks(file_size, connections)
PlanAnyCall ==
    /\ d_pc = "idle"
    /\ LET call == calculate_chunks_call(file_size, connections) IN
        /\ d_error' = call.raised
        /\ d_cause' = 0
        /\ chunks' = call.chunks
    /\ d_pc' = "planned"
    /\ UNCHANGED <<env_vars, l_last, batch_vars, v_calls, shared_vars, fs_vars, task_vars, handler_vars,
                   ledger_vars, file_size, connections, d_result>>

PlanAnyNext == PlanAnyCall

SpecPlanAny == PlanAnyInit /\ [][PlanAnyNext]_vars

\* ------------------------------------------------------------------ download_chunk
\* session.get(url, headers={'Range': 'bytes=start-end'}) and raise_for_status():
\* the request fails, or a response body starts to arrive
ChunkRequest(i, mode) ==
    /\ d_pc = "gather"
    /\ t_pc[i] = "request"
    /\ t_body' = [t_body EXCEPT ![i] = ServerBody(mode, chunks[i])]
    /\ t_pc' = [t_pc EXCEPT ![i] = "iter"]
    /\ UNCHANGED <<env_vars, l_last, batch_vars, v_calls, shared_vars, fs_vars, dl_vars, handler_vars, ledger_vars,
                   fh_pos, t_bytes, t_block, last_write, progress_done, t_err>>

\* The next block of iter_chunked(chunk_size); bytes_downloaded += len(chunk);
\* await file.seek(start + bytes_downloaded - len(chunk)). The seek moves the one
\* position of the handle all tasks share, and the task is suspended after it.
ChunkSeek(i) ==
    /\ d_pc = "gather"
    /\ t_pc[i] = "iter"
    /\ t_body[i] # <<>>
    /\ LET n == Min(config.chunk_size, Len(t_body[i])) IN
        /\ t_block' = [t_block EXCEPT ![i] = SubSeq(t_body[i], 1, n)]
        /\ t_body' = [t_body EXCEPT ![i] = SubSeq(@, n + 1, Len(@))]
        /\ t_bytes' = [t_bytes EXCEPT ![i] = @ + n]
        /\ fh_pos' = chunks[i].start + (t_bytes[i] + n) - n
    /\ t_pc' = [t_pc EXCEPT ![i] = "seeked"]
    /\ UNCHANGED <<env_vars, l_last, batch_vars, v_calls, shared_vars, fs_vars, dl_vars, handler_vars, ledger_vars,
                   last_write, progress_done, t_err>>

\* task_id = progress.add_task(...): rich numbers the tasks of a Progress from
\* TaskID(0), and download_file's Progress is new and has this one task
task_id == 0

\* if progress and task_id: progress.update(task_id, advance=len(chunk)).
\* The Progress object is truthy; the task id is tested as a boolean too.
progress_update(completed, tid, advance) ==
    IF tid # 0 THEN completed + advance ELSE completed

\* await file.write(chunk): at the handle's position, whoever set it last;
\* progress.update(task_id, advance=len(chunk))
ChunkWrite(i) ==
    /\ d_pc = "gather"
    /\ t_pc[i] = "seeked"
    /\ LET n == Len(t_block[i]) IN
        /\ file_data' = WriteAt(file_data, fh_pos, t_block[i])
        /\ fh_pos' = fh_pos + n
        /\ last_write' = [task |-> i, intended |-> chunks[i].start + t_bytes[i] - n,
                          offset |-> fh_pos, len |-> n]
        /\ progress_done' = progress_update(progress_done, task_id, n)
    /\ t_block' = [t_block EXCEPT ![i] = <<>>]
    /\ t_pc' = [t_pc EXCEPT ![i] = "iter"]
    /\ UNCHANGED <<env_vars, l_last, batch_vars, v_calls, shared_vars, dl_vars, handler_vars, ledger_vars, dest, t_bytes, t_body,
                   t_err>>

\* The body is exhausted: return bytes_downloaded
ChunkReturn(i) ==
    /\ d_pc = "gather"
    /\ t_pc[i] = "iter"
    /\ t_body[i] = <<>>
    /\ t_pc' = [t_pc EXCEPT ![i] = "done"]
    /\ UNCHANGED <<env_vars, l_last, batch_vars, v_calls, shared_vars, fs_vars, dl_vars, handler_vars, ledger_vars,
                   fh_pos, t_bytes, t_body, t_block, last_write, progress_done, t_err>>

\* DownloadConfig.max_retries
max_retries == 3

\* The requests download_chunk has made for its range, by the task's position:
\* the one session.get of its body
attempts(pc) == IF pc = "request" THEN 0 ELSE 1

\* Any exception inside the try block (the request fails, an error status, the
\* stream breaks, a write fails): raise DownloadError("Chunk download failed").
\* The task's result is the exception; its bytes_downloaded is lost with it.
ChunkFail(i) ==
    /\ d_pc = "gather"
    /\ t_pc[i] \in {"request", "iter", "seeked"}
    /\ t_pc' = [t_pc EXCEPT ![i] = "failed"]
    /\ t_bytes' = [t_bytes EXCEPT ![i] = 0]
    /\ t_body' = [t_body EXCEPT ![i] = <<>>]
    /\ t_block' = [t_block EXCEPT ![i] = <<>>]
    /\ t_err' = [t_err EXCEPT ![i] = Cardinality({j \in DOMAIN t_pc : t_pc[j] = "failed"}) + 1]
    /\ UNCHANGED <<env_vars, l_last, batch_vars, v_calls, shared_vars, fs_vars, dl_vars, handler_vars, ledger_vars,
                   fh_pos, last_write, progress_done>>

\* results = await asyncio.gather(...); the error check, the size check, the file
\* closed on the way out; return True, or the except branch
DGather ==
    /\ d_pc = "gather"
    /\ AllResolved
    /\ IF HasErrors(t_pc)
       THEN FailCause("Download failed: Chunk download failed", first_error(t_err))
       ELSE IF SizeMismatch(total_downloaded(t_pc, t_bytes), file_size)
       THEN Fail("Download size mismatch")
       ELSE /\ d_result' = "true"
            /\ d_pc' = "done"
            /\ UNCHANGED <<fs_vars, d_error, d_cause>>
    /\ UNCHANGED <<env_vars, l_last, batch_vars, v_calls, shared_vars, task_vars, handler_vars, ledger_vars,
                   file_size, connections, chunks>>


\* ------------------------------------------------------------------ interrupt
\* DownloadCLI.handle_interrupt while chunk tasks are in flight: running = False
\* and loop.stop(). asyncio.run then cancels every task that is left: each
\* unfinished chunk task and the task awaiting gather get CancelledError, which
\* is not an Exception: neither download_file's nor the handler's nor the CLI's
\* except branch runs. The file is closed and the session is closed on the way
\* out (the two async with blocks); the path and the record stay as they are.
Interrupt ==
    /\ h_pc = "download"
    /\ d_pc = "gather"
    /\ \E i \in DOMAIN t_pc : t_pc[i] \notin {"done", "failed"}
    /\ h_pc' = "cancelled"
    /\ session' = "closed"
    /\ EndCall
    /\ UNCHANGED <<env_vars, l_last, batch_vars, v_calls, shared_vars, fs_vars, ledger_vars, heap, h_ref>>

\* ------------------------------------------------------------------ HTTPHandler, the end
\* success = await self.downloader.download_file(...); if success / else. An
\* exception out of download_file leaves the with block (__aexit__ closes the
\* session) and reaches the except branch, which re-raises.
HAfterDownload ==
    /\ h_pc = "download"
    /\ d_pc = "done"
    /\ IF d_result = "raised"
       THEN /\ heap' = [heap EXCEPT ![h_ref] = OnException(@, d_error)]
            /\ session' = "closed"
            /\ h_pc' = "raised"
       ELSE /\ heap' = [heap EXCEPT ![h_ref] = AfterDownload(@, d_result = "true")]
            /\ session' = session
            /\ h_pc' = "aexit"
    /\ UNCHANGED <<env_vars, l_last, batch_vars, v_calls, shared_vars, fs_vars, task_vars, dl_vars, ledger_vars,
                   probe_resp, file_info, h_ref>>

\* AsyncDownloader.__aexit__ at the end of the with block: await
\* self.session.close(), executor.shutdown(). It runs after the status was set;
\* an exception out of it reaches the handler's except branch. Otherwise
\* return download_info. The handler's call ends here either way, and with it
\* the locals of download_file and of its chunk tasks.
HExit(close_ok) ==
    /\ h_pc = "aexit"
    /\ session' = "closed"
    /\ IF close_ok
       THEN /\ h_pc' = "returned"
            /\ heap' = heap
       ELSE /\ h_pc' = "raised"
            /\ heap' = [heap EXCEPT ![h_ref] = OnException(@, "Session close failed")]
    /\ EndCall
    /\ UNCHANGED <<env_vars, l_last, batch_vars, v_calls, shared_vars, fs_vars, ledger_vars, h_ref>>

\* ------------------------------------------------------------------ TorrentHandler
\* What libtorrent's status.progress * 100 is seen to be while the loop runs
TorrentProgress == {50}

\* download_info = DownloadInfo(file_type='torrent', status='starting', ...)
TStart ==
    /\ h_pc = "idle"
    /\ heap' = Append(heap, NewDownloadInfo(m_url, "torrent"))
    /\ h_ref' = Len(heap) + 1
    /\ h_pc' = "torrent"
    /\ UNCHANGED <<env_vars, l_last, batch_vars, v_calls, shared_vars, fs_vars, task_vars, dl_vars, ledger_vars,
                   probe_resp, file_info, session>>

\* lt.session(), add_magnet_uri / add_torrent; download_info.status = 'downloading'
TAddTorrent ==
    /\ h_pc = "torrent"
    /\ heap' = [heap EXCEPT ![h_ref].status = "downloading"]
    /\ h_pc' = "seeding"
    /\ UNCHANGED <<env_vars, l_last, batch_vars, v_calls, shared_vars, fs_vars, task_vars, dl_vars, ledger_vars,
                   probe_resp, file_info, session, h_ref>>

\* one turn of: while not handle.is_seed(): download_info.progress = ...
TStatus(p) ==
    /\ h_pc = "seeding"
    /\ heap' = [heap EXCEPT ![h_ref].progress = p]
    /\ UNCHANGED <<env_vars, l_last, batch_vars, v_calls, shared_vars, fs_vars, task_vars, dl_vars, ledger_vars,
                   probe_resp, file_info, session, h_ref, h_pc>>

\* handle.is_seed(): status 'completed', progress 100.0, completed_at; return
TSeed ==
    /\ h_pc = "seeding"
    /\ heap' = [heap EXCEPT ![h_ref] = AfterDownload(@, TRUE)]
    /\ h_pc' = "returned"
    /\ UNCHANGED <<env_vars, l_last, batch_vars, v_calls, shared_vars, fs_vars, task_vars, dl_vars, ledger_vars,
                   probe_resp, file_info, session, h_ref>>

\* an exception inside the try: status 'failed', error = str(e), raise DownloadError
TRaise ==
    /\ h_pc \in {"torrent", "seeding"}
    /\ heap' = [heap EXCEPT ![h_ref] = OnException(@, "libtorrent error")]
    /\ h_pc' = "raised"
    /\ UNCHANGED <<env_vars, l_last, batch_vars, v_calls, shared_vars, fs_vars, task_vars, dl_vars, ledger_vars,
                   probe_resp, file_info, session, h_ref>>

\* ------------------------------------------------------------------ YouTubeHandler
\* What the progress hook's _percent_str is seen to be during ydl.download
HookPercent == {50}

\* download_info = DownloadInfo(file_type='youtube', status='starting', ...)
YStart ==
    /\ h_pc = "idle"
    /\ heap' = Append(heap, NewDownloadInfo(m_url, "youtube"))
    /\ h_ref' = Len(heap) + 1
    /\ h_pc' = "youtube"
    /\ UNCHANGED <<env_vars, l_last, batch_vars, v_calls, shared_vars, fs_vars, task_vars, dl_vars, ledger_vars,
                   probe_resp, file_info, session>>

\* ydl_opts, progress.add_task; download_info.status = 'downloading'
YRun ==
    /\ h_pc = "youtube"
    /\ heap' = [heap EXCEPT ![h_ref].status = "downloading"]
    /\ h_pc' = "ydl"
    /\ UNCHANGED <<env_vars, l_last, batch_vars, v_calls, shared_vars, fs_vars, task_vars, dl_vars, ledger_vars,
                   probe_resp, file_info, session, h_ref>>

\* progress_hook(d) with d['status'] == 'downloading' during ydl.download
YHook(p) ==
    /\ h_pc = "ydl"
    /\ heap' = [heap EXCEPT ![h_ref].progress = p]
    /\ UNCHANGED <<env_vars, l_last, batch_vars, v_calls, shared_vars, fs_vars, task_vars, dl_vars, ledger_vars,
                   probe_resp, file_info, session, h_ref, h_pc>>

\* ydl.download returned: status 'completed', progress 100.0, completed_at; return
YComplete ==
    /\ h_pc = "ydl"
    /\ heap' = [heap EXCEPT ![h_ref] = AfterDownload(@, TRUE)]
    /\ h_pc' = "returned"
    /\ UNCHANGED <<env_vars, l_last, batch_vars, v_calls, shared_vars, fs_vars, task_vars, dl_vars, ledger_vars,
                   probe_resp, file_info, session, h_ref>>

\* an exception inside the try: status 'failed', error = str(e), raise DownloadError
YRaise ==
    /\ h_pc \in {"youtube", "ydl"}
    /\ heap' = [heap EXCEPT ![h_ref] = OnException(@, "yt-dlp error")]
    /\ h_pc' = "raised"
    /\ UNCHANGED <<env_vars, l_last, batch_vars, v_calls, shared_vars, fs_vars, task_vars, dl_vars, ledger_vars,
                   probe_resp, file_info, session, h_ref>>

\* ------------------------------------------------------------------ ProtocolManager
\* self.handlers, in registration order
\* A registry that asks the Torrent handler first
handlers_torrent_first == <<"TorrentHandler", "HTTPHandler", "YouTubeHandler">>

\* ProtocolManager.__init__: self.handlers
handlers == <<"HTTPHandler", "TorrentHandler", "YouTubeHandler">>

\* yt_dlp's extractor.suitable(url) for an extractor other than 'generic': the
\* site's pattern, with the scheme http, https or none ("//")
suitable(url) ==
    /\ Len(url) >= 2 /\ url[2] = "youtube.com"
    /\ url[1] \in {"http://", "https://", "//"}

\* handler.can_handle(url) of each handler class
can_handle(handler, url) ==
    CASE handler = "HTTPHandler" ->
            startswith(url, "http://") \/ startswith(url, "https://")
      [] handler = "TorrentHandler" ->
            startswith(url, "magnet:") \/ endswith(url, ".torrent")
      [] handler = "YouTubeHandler" -> suitable(url)

\* for handler in self.handlers: if await handler.can_handle(url): return handler
\* return None
RECURSIVE get_handler_from(_, _)
get_handler_from(i, url) ==
    IF i > Len(handlers) THEN "None"
    ELSE IF can_handle(handlers[i], url) THEN handlers[i]
    ELSE get_handler_from(i + 1, url)

\* A lookup that lets a later handler override an earlier one
RECURSIVE get_handler_last_from(_, _)
get_handler_last_from(i, url) ==
    IF i < 1 THEN "None"
    ELSE IF can_handle(handlers[i], url) THEN handlers[i]
    ELSE get_handler_last_from(i - 1, url)

get_handler_last(url) == get_handler_last_from(Len(handlers), url)

\* ProtocolManager.get_handler
get_handler(url) == get_handler_from(1, url)

\* if not handler: raise DownloadError("No handler found for URL: ...")
NoHandler ==
    /\ h_pc = "idle"
    /\ h_pc' = "raised"
    /\ UNCHANGED <<env_vars, l_last, batch_vars, v_calls, shared_vars, fs_vars, task_vars, dl_vars, ledger_vars,
                   probe_resp, file_info, heap, h_ref, session>>

\* ProtocolManager.download: handler = await self.get_handler(url); the error
\* when there is none, else handler.download(url, output_path, progress)
ManagerDownload ==
    LET handler == get_handler(m_url) IN
    CASE handler = "None" -> NoHandler
      [] handler = "HTTPHandler" -> HStart
      [] handler = "TorrentHandler" -> TStart
      [] handler = "YouTubeHandler" -> YStart

\* ------------------------------------------------------------------ DownloadTracker
\* asdict(download_info): a copy of the fields
asdict(info) == info

\* json.dump(..., default=str) of one entry: datetimes are written as strings
JsonEntry(e) ==
    [e EXCEPT !.started_at = IF @ = "datetime" THEN "isoformat" ELSE @,
              !.completed_at = IF @ = "datetime" THEN "isoformat" ELSE @]

\* What a write of history.json may do: succeed, fail at open (the file is as it
\* was), or fail after open(..., 'w') has truncated it
SaveOutcomes == {"ok", "open_failed", "dump_failed"}

\* A write that keeps only the newest entry
save_history_last(hist, outcome) ==
    CASE outcome = "ok" ->
            [valid |-> TRUE,
             entries |-> IF hist = <<>> THEN <<>> ELSE <<JsonEntry(hist[Len(hist)])>>]
      [] outcome = "open_failed" -> history_file
      [] outcome = "dump_failed" -> [valid |-> FALSE, entries |-> <<>>]

\* DownloadTracker.save_history: the whole history, rewritten; errors are printed
save_history(hist, outcome) ==
    CASE outcome = "ok" ->
            [valid |-> TRUE, entries |-> [k \in DOMAIN hist |-> JsonEntry(hist[k])]]
      [] outcome = "open_failed" -> history_file
      [] outcome = "dump_failed" -> [valid |-> FALSE, entries |-> <<>>]

\* save_history's "except Exception as e: print(...)": whether a failed write
\* reaches the caller of save_history
save_history_uncaught(outcome) == outcome # "ok"

save_history_raises(outcome) == FALSE

\* An add that keeps the entry a url already has
add_download_setdefault(ref, info, outcome) ==
    /\ active_downloads' = IF active_downloads[info.url] = 0
                           THEN [active_downloads EXCEPT ![info.url] = ref]
                           ELSE active_downloads
    /\ history' = Append(history, asdict(info))
    /\ history_file' = save_history(history', outcome)

\* An add that puts the snapshot at the head of the history
add_download_prepend(ref, info, outcome) ==
    /\ active_downloads' = [active_downloads EXCEPT ![info.url] = ref]
    /\ history' = <<asdict(info)>> \o history
    /\ history_file' = save_history(history', outcome)

\* DownloadTracker.add_download(download_info): info is the record, ref the
\* reference to it
add_download(ref, info, outcome) ==
    /\ active_downloads' = [active_downloads EXCEPT ![info.url] = ref]
    /\ history' = Append(history, asdict(info))
    /\ history_file' = save_history(history', outcome)

\* An update that builds the record anew from the keyword arguments
setattrs_replace(info, kwargs) ==
    [f \in DOMAIN info |->
        IF f \in DOMAIN kwargs THEN kwargs[f]
        ELSE IF f = "url" THEN info[f] ELSE NewDownloadInfo(info.url, info.file_type)[f]]

\* for key, value in kwargs.items(): setattr(download_info, key, value)
setattrs(info, kwargs) ==
    [f \in DOMAIN info |-> IF f \in DOMAIN kwargs THEN kwargs[f] ELSE info[f]]

\* A search that takes the newest entry of the url
LastMatch(hist, url) ==
    IF \E k \in DOMAIN hist : hist[k].url = url
    THEN CHOOSE k \in DOMAIN hist :
            /\ hist[k].url = url
            /\ \A j \in (k + 1)..Len(hist) : hist[j].url # url
    ELSE 0

\* for entry in self.history: if entry['url'] == url: entry.update(...); break
FirstMatch(hist, url) ==
    IF \E k \in DOMAIN hist : hist[k].url = url
    THEN CHOOSE k \in DOMAIN hist :
            /\ hist[k].url = url
            /\ \A j \in 1..(k - 1) : hist[j].url # url
    ELSE 0

\* The keyword arguments a caller may pass to update_download
KwargsSet ==
    {[status |-> s] : s \in Statuses}
    \cup {[progress |-> p] : p \in {50, 100}}
    \cup {[status |-> s, progress |-> 100] : s \in {"completed"}}

\* An update that writes the history file whether or not the url is active
update_download_save_anyway(url, kwargs, outcome) ==
    LET ref == active_downloads[url]
        info == IF ref = 0 THEN <<>> ELSE setattrs(heap[ref], kwargs)
        k == FirstMatch(history, url) IN
    /\ heap' = IF ref = 0 THEN heap ELSE [heap EXCEPT ![ref] = info]
    /\ history' = IF ref = 0 \/ k = 0 THEN history
                  ELSE [history EXCEPT ![k] = asdict(info)]
    /\ history_file' = save_history(history', outcome)
    /\ UNCHANGED active_downloads

\* DownloadTracker.update_download(url, **kwargs): nothing when url is not active
update_download(url, kwargs, outcome) ==
    IF active_downloads[url] = 0
    THEN UNCHANGED <<heap, ledger_vars>>
    ELSE LET ref == active_downloads[url]
             info == setattrs(heap[ref], kwargs)
             k == FirstMatch(history, url) IN
         /\ heap' = [heap EXCEPT ![ref] = info]
         /\ history' = IF k = 0 THEN history
                       ELSE [history EXCEPT ![k] = asdict(info)]
         /\ history_file' = save_history(history', outcome)
         /\ UNCHANGED active_downloads

\* DownloadTracker.get_active_downloads: list(self.active_downloads.values())
get_active_downloads ==
    {heap[active_downloads[u]] : u \in {v \in UrlSpace : active_downloads[v] # 0}}

\* DownloadTracker.clear_history: self.history = []; self.save_history()
clear_history(outcome) ==
    /\ history' = <<>>
    /\ history_file' = save_history(history', outcome)
    /\ UNCHANGED <<heap, active_downloads>>

\* DownloadTracker.load_history: json.load of the file; [] when the file is
\* missing or cannot be parsed
load_history(file) == IF file.valid THEN file.entries ELSE <<>>

\* ------------------------------------------------------------------ DownloadCLI
\* DownloadCLI.download_file: the handler returned, tracker.add_download(info)
CliAddDownload(outcome) ==
    /\ h_pc = "returned"
    /\ add_download(h_ref, heap[h_ref], outcome)
    /\ h_pc' = IF save_history_raises(outcome) THEN "raised" ELSE "tracked"
    /\ UNCHANGED <<env_vars, l_last, batch_vars, v_calls, shared_vars, fs_vars, task_vars, dl_vars,
                   probe_resp, file_info, heap, h_ref, session>>

\* DownloadCLI.download_file: the handler raised; print the error, return None
CliError ==
    /\ h_pc = "raised"
    /\ h_pc' = "dropped"
    /\ UNCHANGED <<env_vars, l_last, batch_vars, v_calls, shared_vars, fs_vars, task_vars, dl_vars, ledger_vars,
                   probe_resp, file_info, heap, h_ref, session>>

\* A call of the ledger's update operation by a consumer of the tracker. The
\* CLI's loop runs one menu operation at a time, so the call comes after
\* DownloadCLI.download_file has returned.
UpdateDownload(url, kwargs, outcome) ==
    /\ h_pc \in {"tracked", "dropped"}
    /\ update_download(url, kwargs, outcome)
    /\ UNCHANGED <<env_vars, l_last, batch_vars, v_calls, shared_vars, fs_vars, task_vars, dl_vars,
                   h_pc, probe_resp, file_info, h_ref, session>>

\* A call of the ledger's clear operation by a consumer of the tracker, between
\* two operations of the CLI's loop like UpdateDownload.
ClearHistory(outcome) ==
    /\ h_pc \in {"tracked", "dropped"}
    /\ clear_history(outcome)
    /\ UNCHANGED <<env_vars, l_last, batch_vars, v_calls, shared_vars, fs_vars, task_vars, dl_vars,
                   h_pc, probe_resp, file_info, h_ref, session>>

\* ------------------------------------------------------------------ Spec
Init ==
    /\ Idle
    /\ b_urls = 0
    /\ resource_size \in 1..MaxSize
    /\ config \in [chunk_size : ChunkSizes, max_connections_per_file : 1..MaxConn]
    /\ m_url \in Urls
    /\ dest \in {"missing", "file", "dir"}
    /\ file_data = IF dest = "file" THEN <<-1>> ELSE <<>>
    /\ active_downloads = [u \in UrlSpace |-> 0]
    /\ file_size = 0
    /\ connections = 0
    /\ chunks = <<>>

Next ==
    \/ ManagerDownload
    \/ TAddTorrent
    \/ \E p \in TorrentProgress : TStatus(p)
    \/ TSeed
    \/ TRaise
    \/ YRun
    \/ \E p \in HookPercent : YHook(p)
    \/ YComplete
    \/ YRaise
    \/ \E resp \in ProbeResponses : HGetFileInfo(resp)
    \/ \E resp \in ProbeResponses : DGetFileInfo(resp)
    \/ DOpen
    \/ \E i \in DOMAIN t_pc, mode \in BodyModes : ChunkRequest(i, mode)
    \/ \E i \in DOMAIN t_pc : ChunkSeek(i)
    \/ \E i \in DOMAIN t_pc : ChunkWrite(i)
    \/ \E i \in DOMAIN t_pc : ChunkReturn(i)
    \/ \E i \in DOMAIN t_pc : ChunkFail(i)
    \/ DGather
    \/ Interrupt
    \/ HAfterDownload
    \/ \E ok \in BOOLEAN : HExit(ok)
    \/ \E outcome \in SaveOutcomes : CliAddDownload(outcome)
    \/ CliError
    \/ \E url \in {m_url, HUrl}, kwargs \in KwargsSet, outcome \in SaveOutcomes :
            UpdateDownload(url, kwargs, outcome)
    \/ \E outcome \in SaveOutcomes : ClearHistory(outcome)

Spec == Init /\ [][Next]_vars

\* ------------------------------------------------------------------ SpecLedger
\* The tracker's operations called in any order, on records as the handlers
\* return them; at most MaxRecords records are made and kept in the history.
LUrls == {HUrl, <<"magnet:", "a">>}

\* The keyword arguments given to update_download, and the outcomes of a write
\* of history.json, that SpecLedger tries
LKwargs == {[progress |-> 50], [status |-> "failed", error |-> "cancelled"]}
LOutcomes == {"ok", "dump_failed"}

\* The record a handler returns for url: completed, or failed without raising
ReturnedInfo(url, success) ==
    AfterDownload([NewDownloadInfo(url, IF startswith(url, "magnet:")
                                        THEN "torrent" ELSE "http")
                      EXCEPT !.status = "downloading"], success)

LedgerInit ==
    /\ Idle
    /\ b_urls = 0
    /\ resource_size = 1
    /\ config = [chunk_size |-> 1, max_connections_per_file |-> 1]
    /\ m_url = HUrl
    /\ dest = "missing" /\ file_data = <<>>
    /\ active_downloads = [u \in UrlSpace |-> 0]
    /\ file_size = 0
    /\ connections = 0
    /\ chunks = <<>>

\* tracker.add_download(download_info) with a record not seen before
LAdd(url, success, outcome) ==
    /\ Len(heap) < MaxRecords /\ Len(history) < MaxRecords
    /\ LET info == ReturnedInfo(url, success)
           ref == Len(heap) + 1 IN
        /\ heap' = Append(heap, info)
        /\ add_download(ref, info, outcome)
    /\ l_last' = [op |-> "add", url |-> url, active |-> active_downloads[url] # 0]
    /\ UNCHANGED <<env_vars, batch_vars, v_calls, shared_vars, fs_vars, task_vars, dl_vars,
                   h_pc, probe_resp, file_info, h_ref, session>>

\* tracker.update_download(url, **kwargs)
LUpdate(url, kwargs, outcome) ==
    /\ update_download(url, kwargs, outcome)
    /\ l_last' = [op |-> "update", url |-> url, active |-> active_downloads[url] # 0]
    /\ UNCHANGED <<env_vars, batch_vars, v_calls, shared_vars, fs_vars, task_vars, dl_vars,
                   h_pc, probe_resp, file_info, h_ref, session>>

\* tracker.clear_history()
LClear(outcome) ==
    /\ clear_history(outcome)
    /\ l_last' = [op |-> "clear", url |-> <<>>, active |-> FALSE]
    /\ UNCHANGED <<env_vars, batch_vars, v_calls, shared_vars, fs_vars, task_vars, dl_vars,
                   h_pc, probe_resp, file_info, h_ref, session>>

\* DownloadTracker(history_file) constructed again on the same file, as the
\* next run of the program does: active_downloads = {}, history =
\* load_history(); the records of the run before are gone
LReload ==
    /\ active_downloads' = [u \in UrlSpace |-> 0]
    /\ history' = load_history(history_file)
    /\ heap' = <<>>
    /\ l_last' = [op |-> "reload", url |-> <<>>, active |-> FALSE]
    /\ UNCHANGED <<env_vars, batch_vars, v_calls, shared_vars, fs_vars, task_vars, dl_vars, history_file,
                   h_pc, probe_resp, file_info, h_ref, session>>

LedgerNext ==
    \/ \E url \in LUrls, success \in BOOLEAN, outcome \in LOutcomes :
            LAdd(url, success, outcome)
    \/ \E url \in LUrls, kwargs \in LKwargs, outcome \in LOutcomes :
            LUpdate(url, kwargs, outcome)
    \/ \E outcome \in LOutcomes : LClear(outcome)
    \/ LReload

SpecLedger == LedgerInit /\ [][LedgerNext]_vars

\* ------------------------------------------------------------------ SpecBatch
\* DownloadCLI.batch_download of 1..MaxBatch urls; what each download_file
\* call does inside is in Spec, here it is in flight until it ends.
\* DownloadConfig.max_concurrent_downloads
max_concurrent_downloads == 3

BatchInit ==
    /\ Idle
    /\ b_urls \in 1..MaxBatch
    /\ resource_size = 1
    /\ config = [chunk_size |-> 1, max_connections_per_file |-> 1]
    /\ m_url = HUrl
    /\ dest = "missing" /\ file_data = <<>>
    /\ active_downloads = [u \in UrlSpace |-> 0]
    /\ file_size = 0
    /\ connections = 0
    /\ chunks = <<>>

\* for url in urls: tasks.append(asyncio.create_task(self.download_file(...)));
\* the loop does not await, so every task exists before any of them runs
BatchCreate ==
    /\ b_pc = <<>>
    /\ b_pc' = [i \in 1..b_urls |-> "created"]
    /\ UNCHANGED <<env_vars, l_last, fs_vars, task_vars, dl_vars, handler_vars, ledger_vars,
                   b_urls, v_calls, shared_vars>>

\* the event loop runs task i up to its first await inside
\* protocol_manager.download: the call is in flight
BatchStart(i) ==
    /\ b_pc[i] = "created"
    /\ b_pc' = [b_pc EXCEPT ![i] = "running"]
    /\ UNCHANGED <<env_vars, l_last, fs_vars, task_vars, dl_vars, handler_vars, ledger_vars,
                   b_urls, v_calls, shared_vars>>

\* download_file of task i ends: return download_info, or None after an error
BatchEnd(i, returned) ==
    /\ b_pc[i] = "running"
    /\ b_pc' = [b_pc EXCEPT ![i] = IF returned THEN "returned" ELSE "none"]
    /\ UNCHANGED <<env_vars, l_last, fs_vars, task_vars, dl_vars, handler_vars, ledger_vars,
                   b_urls, v_calls, shared_vars>>

\* The download calls in flight
InFlight == {i \in DOMAIN b_pc : b_pc[i] = "running"}

BatchNext ==
    \/ BatchCreate
    \/ \E i \in DOMAIN b_pc : BatchStart(i)
    \/ \E i \in DOMAIN b_pc, returned \in BOOLEAN : BatchEnd(i, returned)

SpecBatch == BatchInit /\ [][BatchNext]_vars

\* ------------------------------------------------------------------ SpecShared
\* Up to MaxShared HTTP downloads started by batch_download. ProtocolManager
\* holds one HTTPHandler, the handler one AsyncDownloader, and every download
\* runs `async with self.downloader`. What a download does with its chunks is
\* in Spec; here each network operation either succeeds or fails.
SharedInit ==
    /\ Idle
    /\ b_urls = 0
    /\ resource_size = 1
    /\ config = [chunk_size |-> 1, max_connections_per_file |-> 1]
    /\ m_url = HUrl
    /\ dest = "missing" /\ file_data = <<>>
    /\ active_downloads = [u \in UrlSpace |-> 0]
    /\ file_size = 0
    /\ connections = 0
    /\ chunks = <<>>

\* batch_download: one task per url, every one of them an http url
SharedCreate(n) ==
    /\ s_pc = <<>>
    /\ s_pc' = [i \in 1..n |-> "created"]
    /\ s_ok' = [i \in 1..n |-> TRUE]
    /\ UNCHANGED <<env_vars, l_last, batch_vars, v_calls, fs_vars, task_vars, dl_vars,
                   handler_vars, ledger_vars, s_sessions, s_downloader>>

\* AsyncDownloader.__aenter__: self.session = aiohttp.ClientSession(...). The
\* attribute is overwritten, whatever it held.
aenter(sessions, downloader) ==
    [sessions |-> Append(sessions, "open"),
     downloader |-> [downloader EXCEPT !.session = Len(sessions) + 1]]

\* AsyncDownloader.__aexit__: if self.session: await self.session.close();
\* self.executor.shutdown(wait=True). The attribute keeps the closed session.
aexit(sessions, downloader) ==
    [sessions |-> IF downloader.session # 0
                  THEN [sessions EXCEPT ![downloader.session] = "closed"]
                  ELSE sessions,
     downloader |-> [downloader EXCEPT !.executor = "shutdown"]]

\* self.session.head / self.session.get: the session is read from the
\* downloader at the time of the call; a closed session raises RuntimeError
session_usable(sessions, downloader) ==
    /\ downloader.session # 0
    /\ sessions[downloader.session] = "open"

\* HTTPHandler.download enters `async with self.downloader`
SharedEnter(i) ==
    /\ s_pc[i] = "created"
    /\ LET r == aenter(s_sessions, s_downloader) IN
        /\ s_sessions' = r.sessions
        /\ s_downloader' = r.downloader
    /\ s_pc' = [s_pc EXCEPT ![i] = "entered"]
    /\ UNCHANGED <<env_vars, l_last, batch_vars, v_calls, fs_vars, task_vars, dl_vars,
                   handler_vars, ledger_vars, s_ok>>

\* await self.downloader.get_file_info(url): a failure raises DownloadError,
\* which leaves the with block
SharedProbe(i, served) ==
    /\ s_pc[i] = "entered"
    /\ LET ok == served /\ session_usable(s_sessions, s_downloader) IN
        /\ s_ok' = [s_ok EXCEPT ![i] = ok]
        /\ s_pc' = [s_pc EXCEPT ![i] = IF ok THEN "probed" ELSE "leaving"]
    /\ UNCHANGED <<env_vars, l_last, batch_vars, v_calls, fs_vars, task_vars, dl_vars,
                   handler_vars, ledger_vars, s_sessions, s_downloader>>

\* await self.downloader.download_file(...): the chunk tasks send their
\* requests and all resolve; download_file returns True or False
SharedChunks(i, served) ==
    /\ s_pc[i] = "probed"
    /\ s_ok' = [s_ok EXCEPT ![i] = served /\ session_usable(s_sessions, s_downloader)]
    /\ s_pc' = [s_pc EXCEPT ![i] = "leaving"]
    /\ UNCHANGED <<env_vars, l_last, batch_vars, v_calls, fs_vars, task_vars, dl_vars,
                   handler_vars, ledger_vars, s_sessions, s_downloader>>

\* the with block is left: AsyncDownloader.__aexit__
SharedExit(i) ==
    /\ s_pc[i] = "leaving"
    /\ LET r == aexit(s_sessions, s_downloader) IN
        /\ s_sessions' = r.sessions
        /\ s_downloader' = r.downloader
    /\ s_pc' = [s_pc EXCEPT ![i] = "exited"]
    /\ UNCHANGED <<env_vars, l_last, batch_vars, v_calls, fs_vars, task_vars, dl_vars,
                   handler_vars, ledger_vars, s_ok>>

SharedNext ==
    \/ \E n \in 1..MaxShared : SharedCreate(n)
    \/ \E i \in DOMAIN s_pc : SharedEnter(i)
    \/ \E i \in DOMAIN s_pc, served \in BOOLEAN : SharedProbe(i, served)
    \/ \E i \in DOMAIN s_pc, served \in BOOLEAN : SharedChunks(i, served)
    \/ \E i \in DOMAIN s_pc : SharedExit(i)

SpecShared == SharedInit /\ [][SharedNext]_vars

\* ------------------------------------------------------------------ SpecChecksum
\* verify_checksum called on a file of up to MaxFileLen bytes, up to MaxChecks
\* times, with buffer sizes 1 and 2.
FileContents == UNION {[1..n -> {1, 2}] : n \in 0..MaxFileLen}

\* SHA-256 as an injective function of the bytes fed to it: the state after
\* update(block) is the bytes so far, hexdigest() is their digest
sha256_update(state, block) == state \o block
hexdigest(state) == [sha256 |-> state]

\* for byte_block in iter(lambda: f.read(buffer_size), b""): update(byte_block)
RECURSIVE read_blocks(_, _, _, _)
read_blocks(data, pos, buffer_size, state) ==
    LET byte_block == SubSeq(data, pos + 1, Min(pos + buffer_size, Len(data))) IN
    IF byte_block = <<>> THEN state
    ELSE read_blocks(data, pos + Len(byte_block), buffer_size,
                     sha256_update(state, byte_block))

\* A check that digests the first block only
verify_checksum_first_block(d, data, expected_checksum, buffer_size) ==
    IF d # "file" THEN FALSE
    ELSE hexdigest(SubSeq(data, 1, Min(buffer_size, Len(data)))) = expected_checksum

\* AsyncDownloader.verify_checksum: False when the file cannot be opened
verify_checksum(d, data, expected_checksum, buffer_size) ==
    IF d # "file" THEN FALSE
    ELSE hexdigest(read_blocks(data, 0, buffer_size, <<>>)) = expected_checksum

ChecksumInit ==
    /\ Idle
    /\ b_urls = 0
    /\ resource_size = 1
    /\ config \in [chunk_size : {1}, max_connections_per_file : {1}, buffer_size : {1, 2}]
    /\ m_url = HUrl
    /\ dest \in {"missing", "file"}
    /\ file_data \in IF dest = "file" THEN FileContents ELSE {<<>>}
    /\ active_downloads = [u \in UrlSpace |-> 0]
    /\ file_size = 0
    /\ connections = 0
    /\ chunks = <<>>

\* downloader.verify_checksum(file_path, expected_checksum)
VerifyChecksum(expected_checksum) ==
    /\ Len(v_calls) < MaxChecks
    /\ v_calls' = Append(v_calls,
          [expected |-> expected_checksum,
           result |-> verify_checksum(dest, file_data, expected_checksum,
                                      config.buffer_size)])
    /\ UNCHANGED <<env_vars, l_last, batch_vars, shared_vars, fs_vars, task_vars, dl_vars,
                   handler_vars, ledger_vars>>

ChecksumNext == \E c \in FileContents : VerifyChecksum(hexdigest(c))

SpecChecksum == ChecksumInit /\ [][ChecksumNext]_vars

\* ------------------------------------------------------------------ SpecRegistry
\* The same transfer in one environment, for every url of UrlSpace
RegInit ==
    /\ Idle
    /\ b_urls = 0
    /\ resource_size = 1
    /\ config = [chunk_size |-> 1, max_connections_per_file |-> 1]
    /\ m_url \in UrlSpace
    /\ dest = "missing" /\ file_data = <<>>
    /\ active_downloads = [u \in UrlSpace |-> 0]
    /\ file_size = 0
    /\ connections = 0
    /\ chunks = <<>>

SpecRegistry == RegInit /\ [][Next]_vars

\* ------------------------------------------------------------------ SpecLive
\* The downloads of SpecRegistry under the scheduling the event loop gives:
\* a coroutine that can take a step takes one, and every network operation
\* returns or fails, so some step of the program other than the user's
\* interrupt is taken whenever one is possible. The interrupt itself may come
\* at any time or never.
Scheduled == Next /\ h_pc' # "cancelled"

SpecLive == RegInit /\ [][Next]_vars /\ WF_vars(Scheduled)


\* ================================================================== claims
NonEmpty(r) == r.start <= r.end

\* C1: for every byte length >= 1 and every connection count 1..64,
\* calculate_chunks returns exactly `connections` ranges, in index order, each
\* starting one past the end of the one before, no two sharing a byte, and
\* together covering exactly the bytes 0 .. file_size - 1.
C1_PlanPartitions ==
    chunks # <<>> =>
        /\ Len(chunks) = connections
        /\ \A i \in 2..Len(chunks) : chunks[i].start = chunks[i - 1].end + 1
        /\ \A i, j \in DOMAIN chunks :
              (i < j /\ NonEmpty(chunks[i]) /\ NonEmpty(chunks[j]))
                  => chunks[i].end < chunks[j].start
        /\ \A i \in DOMAIN chunks :
              NonEmpty(chunks[i]) => (0 <= chunks[i].start /\ chunks[i].end <= file_size - 1)
        /\ \A b \in 0..(file_size - 1) :
              \E i \in DOMAIN chunks : chunks[i].start <= b /\ b <= chunks[i].end

\* a plan with a remainder: 7 bytes over 3 connections
C1_Witness ==
    /\ d_pc = "idle" /\ chunks # <<>>
    /\ file_size = 7 /\ connections = 3
    /\ file_size % connections # 0

\* C2: with base = file_size div connections, range i (0-based) is
\* (i*base, (i+1)*base - 1) for every i but the last, and the last is
\* ((connections-1)*base, file_size - 1); plan(7,3) and plan(10000000,4) are the
\* lists the specification gives.
C2_PlanFormula ==
    /\ chunks # <<>> =>
          LET base == file_size \div connections IN
          \A i \in 0..(connections - 1) :
              chunks[i + 1] =
                  IF i < connections - 1
                  THEN [start |-> i * base, end |-> (i + 1) * base - 1]
                  ELSE [start |-> (connections - 1) * base, end |-> file_size - 1]
    /\ calculate_chunks(7, 3) =
          <<[start |-> 0, end |-> 1], [start |-> 2, end |-> 3], [start |-> 4, end |-> 6]>>
    /\ calculate_chunks(10000000, 4) =
          <<[start |-> 0, end |-> 2499999], [start |-> 2500000, end |-> 4999999],
            [start |-> 5000000, end |-> 7499999], [start |-> 7500000, end |-> 9999999]>>

\* the planner has produced the specification's example for 7 bytes, 3 connections
C2_Witness ==
    /\ d_pc = "idle"
    /\ chunks = <<[start |-> 0, end |-> 1], [start |-> 2, end |-> 3],
                  [start |-> 4, end |-> 6]>>


\* C3: under every interleaving of the chunk tasks, every block a task receives
\* is written at range.start + (the bytes that task had written before it): the
\* offset of a write is the one its own task sought, never another task's.
C3_WritesAtOwnOffset ==
    last_write.task # 0 => last_write.offset = last_write.intended

\* C4: whatever body the server returns, every byte a chunk task writes has an
\* offset inside that task's range [start, end].
C4_WritesInsideOwnRange ==
    (last_write.task # 0 /\ last_write.len > 0) =>
        /\ chunks[last_write.task].start <= last_write.offset
        /\ last_write.offset + last_write.len - 1 <= chunks[last_write.task].end

\* C5: download_file with connection count C starts exactly C chunk tasks, all
\* of them started together, and decides only when each of them has returned or
\* raised; a task that fails changes no other task and does not end the wait.
C5_FanOutFanIn ==
    /\ [](d_pc = "gather" =>
            /\ connections = config.max_connections_per_file
            /\ Len(chunks) = connections
            /\ DOMAIN t_pc = 1..connections)
    /\ []((d_pc = "done" /\ t_pc # <<>>) =>
            \A i \in DOMAIN t_pc : t_pc[i] \in {"done", "failed"})
    /\ [][/\ (d_pc = "open" /\ d_pc' = "gather") =>
                \A i \in DOMAIN t_pc' : t_pc'[i] = "request"
          /\ \A i \in DOMAIN t_pc :
                (i \in DOMAIN t_pc' /\ t_pc[i] # "failed" /\ t_pc'[i] = "failed") =>
                    /\ d_pc' = "gather"
                    /\ \A j \in DOMAIN t_pc \ {i} : t_pc'[j] = t_pc[j]]_vars

\* the download was decided with one task failed and another that had
\* delivered its bytes
C5_Witness ==
    /\ d_pc = "done" /\ Len(t_pc) = 2
    /\ \E i, j \in DOMAIN t_pc :
          t_pc[i] = "failed" /\ t_pc[j] = "done" /\ t_bytes[j] > 0

\* C6: whenever at least one chunk task ended in an error, download_file
\* reports failure and the destination path does not exist when it returns, and
\* the handler sets the record's status to 'failed'.
C6_ChunkErrorFailsDownload ==
    ((\E i \in DOMAIN t_pc : t_pc[i] = "failed") /\ d_pc = "done") =>
        /\ d_result = "false"
        /\ dest = "missing"
        /\ h_pc = "aexit" => heap[h_ref].status = "failed"

\* the handler has set 'failed' after a download in which a chunk task failed
\* while another had already written to the file
C6_Witness ==
    /\ h_pc = "aexit" /\ heap[h_ref].status = "failed"
    /\ \E i \in DOMAIN t_pc : t_pc[i] = "failed"
    /\ last_write.len > 0
    /\ dest = "missing"

\* C7: download_file returns success only if the byte counts the chunk tasks
\* returned sum to the file size; if every task succeeded and the sum differs,
\* the download fails and the destination path does not exist afterwards.
C7_SizeVerified ==
    LET AllDone == t_pc # <<>> /\ \A i \in DOMAIN t_pc : t_pc[i] = "done"
        total == SumSeq(t_bytes) IN
    /\ d_result = "true" => (AllDone /\ total = file_size)
    /\ (d_pc = "done" /\ AllDone /\ total # file_size) =>
          (d_result = "false" /\ dest = "missing")

\* every task succeeded, the server sent more bytes than the file has, and the
\* download has failed
C7_Witness ==
    /\ d_pc = "done" /\ t_pc # <<>>
    /\ \A i \in DOMAIN t_pc : t_pc[i] = "done"
    /\ SumSeq(t_bytes) > file_size
    /\ d_result = "false"

\* C8: when the metadata probe fails or reports an unknown length, download_file
\* fails before planning chunks or starting a task, and the destination path is
\* after the call as it was before it: an existing file is still there.
C8_ProbeFailureLeavesDestination ==
    [][(d_pc = "probe" /\ d_pc' = "done") =>
          /\ chunks' = <<>> /\ t_pc' = <<>>
          /\ d_result' # "true"
          /\ dest' = dest /\ file_data' = file_data]_vars

\* C9: get_file_info fails whenever the probe cannot be completed or the
\* response has no usable content-length header; it returns no metadata then.
C9_ProbeFailsWithoutLength ==
    file_info.called =>
        ((~probe_resp.ok \/ ~(probe_resp.has_length /\ probe_resp.numeric))
            => file_info.err)

\* C9, amended: get_file_info fails when the probe cannot be completed or the
\* content-length header is present and not an integer; without the header it
\* returns metadata of size 0, and download_file then fails with "File size
\* unknown" before it plans chunks or starts a task. A positive size is the
\* header's value.
C9_ProbeAmended ==
    file_info.called =>
        /\ (~probe_resp.ok \/ (probe_resp.has_length /\ ~probe_resp.numeric))
              => file_info.err
        /\ (probe_resp.ok /\ ~probe_resp.has_length)
              => (~file_info.err /\ file_info.size = 0)
        /\ (~file_info.err /\ file_info.size > 0)
              => (probe_resp.ok /\ probe_resp.has_length /\ probe_resp.numeric
                  /\ file_info.size = probe_resp.length)
        /\ (d_pc = "done" /\ ~file_info.err /\ file_info.size = 0)
              => (d_result # "true" /\ d_error = "File size unknown"
                  /\ chunks = <<>> /\ t_pc = <<>>)

\* download_file got a response without content-length and has failed
C9_Witness ==
    /\ d_pc = "done" /\ file_info.called
    /\ probe_resp.ok /\ ~probe_resp.has_length
    /\ ~file_info.err /\ file_info.size = 0
    /\ d_error = "File size unknown"

Rank(status) ==
    CASE status = "starting" -> 0
      [] status = "downloading" -> 1
      [] status \in {"completed", "failed"} -> 2

\* C10: a record is created as 'starting', its status never moves back along
\* starting -> downloading -> (completed | failed), and once it is 'completed'
\* or 'failed' no step of the handler or of the ledger changes it.
C10_StatusMonotonic ==
    [][\A r \in DOMAIN heap' :
          IF r \in DOMAIN heap
          THEN /\ Rank(heap'[r].status) >= Rank(heap[r].status)
               /\ Rank(heap[r].status) = 2 => heap'[r].status = heap[r].status
          ELSE heap'[r].status = "starting"]_vars

Whole(r) == r.status = "completed" => (r.progress = 100 /\ r.completed_at # "None")

C12_EndsWithRecord ==
    [][(h_pc \in {"returned", "raised"} /\ h_pc' \in {"tracked", "dropped"}) =>
          /\ h_pc' = "tracked"
          /\ heap'[h_ref'].status \in {"completed", "failed"}
          /\ heap'[h_ref'].status = "failed" =>
                heap'[h_ref'].error \notin {"None", ""}]_vars

HandlerOf(file_type) ==
    CASE file_type = "http" -> "HTTPHandler"
      [] file_type = "torrent" -> "TorrentHandler"
      [] file_type = "youtube" -> "YouTubeHandler"

\* C13: the registry hands the url to the first handler, in registration
\* order, whose can_handle is true, whatever later handlers would answer; when
\* no can_handle is true, ProtocolManager.download raises and no handler is
\* started: there is no default handler.
C13_FirstMatch ==
    h_pc # "idle" =>
        LET M == {i \in DOMAIN handlers : can_handle(handlers[i], m_url)} IN
        IF M = {}
        THEN heap = <<>> /\ h_ref = 0 /\ h_pc \in {"raised", "dropped"}
        ELSE LET first == CHOOSE i \in M : \A j \in M : i <= j IN
             /\ Len(heap) = 1 /\ h_ref = 1
             /\ heap[1].url = m_url
             /\ HandlerOf(heap[1].file_type) = handlers[first]

\* a .torrent file served over https: HTTPHandler and TorrentHandler both
\* accept it, and the HTTP handler has it
C13_Witness ==
    /\ m_url = <<"https://", "a", ".torrent">>
    /\ can_handle("HTTPHandler", m_url) /\ can_handle("TorrentHandler", m_url)
    /\ h_pc = "probe" /\ heap[h_ref].file_type = "http"

\* C14: after add_download(r), get_active_downloads() contains an entry equal
\* to r, stored under r.url, whatever record r is and whatever the ledger held
\* before.
C14_AddThenActive ==
    [][\A url \in LUrls, success \in BOOLEAN, outcome \in LOutcomes :
          LAdd(url, success, outcome) =>
              LET r == ReturnedInfo(url, success) IN
              /\ r \in get_active_downloads'
              /\ active_downloads'[r.url] # 0
              /\ heap'[active_downloads'[r.url]] = r]_vars

\* a failed record was added under a url that held a completed one: the active
\* records contain the failed one and no longer the completed one
C14_Witness ==
    /\ Len(heap) = 2 /\ heap[1].url = heap[2].url
    /\ heap[1].status = "completed" /\ heap[2].status = "failed"
    /\ heap[2] \in get_active_downloads /\ heap[1] \notin get_active_downloads

\* C15: update_download(url, changes) on an active url sets exactly the fields
\* given in changes on that url's active record; every other field of it, and
\* every other record, is as before, and the active map is as before.
C15_UpdateFrame ==
    [][\A url \in LUrls, kwargs \in LKwargs, outcome \in LOutcomes :
          (LUpdate(url, kwargs, outcome) /\ active_downloads[url] # 0) =>
              LET ref == active_downloads[url] IN
              /\ DOMAIN heap' = DOMAIN heap
              /\ \A f \in DOMAIN heap[ref] :
                    heap'[ref][f] = IF f \in DOMAIN kwargs THEN kwargs[f]
                                    ELSE heap[ref][f]
              /\ \A r \in DOMAIN heap \ {ref} : heap'[r] = heap[r]
              /\ active_downloads' = active_downloads]_vars

\* two urls are active; the completed record of one was updated to failed with
\* an error and kept its progress and its timestamps, the other is untouched
C15_Witness ==
    /\ active_downloads[HUrl] # 0 /\ active_downloads[<<"magnet:", "a">>] # 0
    /\ LET r == heap[active_downloads[HUrl]] IN
          /\ r.status = "failed" /\ r.error = "cancelled"
          /\ r.progress = 100 /\ r.completed_at = "datetime"
    /\ heap[active_downloads[<<"magnet:", "a">>]] = ReturnedInfo(<<"magnet:", "a">>, TRUE)

\* C16: after update_download(url, changes), the history entry that is the
\* snapshot of the url's active record (the one appended when that record was
\* recorded) equals the updated record and no other history entry is changed,
\* also when the url was recorded more than once. (With nothing cleared or
\* loaded since the run began, the snapshot of record number n is history
\* entry number n.)
C16_UpdateRewritesOwnSnapshot ==
    [][\A url \in LUrls, kwargs \in LKwargs, outcome \in LOutcomes :
          (/\ LUpdate(url, kwargs, outcome)
           /\ active_downloads[url] # 0
           /\ Len(history) = Len(heap)) =>
              LET ref == active_downloads[url] IN
              /\ DOMAIN history' = DOMAIN history
              /\ history'[ref] = asdict(heap'[ref])
              /\ \A k \in DOMAIN history \ {ref} : history'[k] = history[k]]_vars

\* C16, amended: after update_download(url, changes) on an active url, the
\* first history entry with that url equals the updated active record and no
\* other history entry is changed; when the url was recorded more than once
\* that entry is the oldest snapshot of the url, not the active record's.
C16_UpdateRewritesFirstMatch ==
    [][\A url \in LUrls, kwargs \in LKwargs, outcome \in LOutcomes :
          (LUpdate(url, kwargs, outcome) /\ active_downloads[url] # 0) =>
              LET ref == active_downloads[url] IN
              /\ DOMAIN history' = DOMAIN history
              /\ \A k \in DOMAIN history :
                    history'[k] =
                        IF /\ history[k].url = url
                           /\ \A j \in 1..(k - 1) : history[j].url # url
                        THEN asdict(heap'[ref])
                        ELSE history[k]]_vars

\* a url was recorded twice and then updated: the older history entry holds
\* the updated second record, the second record's own snapshot is stale
C16_Witness ==
    /\ Len(heap) = 2 /\ Len(history) = 2
    /\ heap[1].url = heap[2].url /\ active_downloads[heap[2].url] = 2
    /\ heap[2].progress = 50
    /\ history[1] = asdict(heap[2]) /\ history[2] # asdict(heap[2])

\* C17: add_download(r) makes r the active entry of r.url, replacing the one
\* that was there and leaving the other urls' entries alone, and appends
\* exactly one snapshot of r at the end of the history; the earlier entries
\* stay as they were, in their order.
C17_AddReplacesAndAppends ==
    [][\A url \in LUrls, success \in BOOLEAN, outcome \in LOutcomes :
          LAdd(url, success, outcome) =>
              LET r == ReturnedInfo(url, success) IN
              /\ active_downloads'[url] = Len(heap') /\ heap'[Len(heap')] = r
              /\ \A u \in UrlSpace \ {url} : active_downloads'[u] = active_downloads[u]
              /\ Len(history') = Len(history) + 1
              /\ history'[Len(history')] = asdict(r)
              /\ \A k \in DOMAIN history : history'[k] = history[k]]_vars

\* the same url recorded twice with different results: the second record is
\* the active one, and the history holds both snapshots, the first one first
C17_Witness ==
    /\ Len(heap) = 2 /\ Len(history) = 2
    /\ heap[1].url = heap[2].url /\ heap[1] # heap[2]
    /\ active_downloads[heap[2].url] = 2
    /\ history[1] = asdict(heap[1]) /\ history[2] = asdict(heap[2])

LedgerWritten ==
    \/ \E url \in LUrls, success \in BOOLEAN : LAdd(url, success, "ok")
    \/ \E url \in LUrls, kwargs \in LKwargs :
          LUpdate(url, kwargs, "ok") /\ active_downloads[url] # 0
    \/ LClear("ok")

C19_WriteFailureNotFatal ==
    [][(h_pc \in {"returned", "tracked", "dropped"}) =>
        \A outcome \in SaveOutcomes \ {"ok"} :
          /\ (h_pc = "returned" /\ CliAddDownload(outcome)) =>
                /\ h_pc' = "tracked"
                /\ heap' = heap
                /\ active_downloads'[heap[h_ref].url] = h_ref
                /\ history' = Append(history, asdict(heap[h_ref]))
          /\ \A url \in {u \in {m_url, HUrl} : active_downloads[u] # 0},
                kwargs \in KwargsSet :
                UpdateDownload(url, kwargs, outcome) =>
                    LET ref == active_downloads[url] IN
                    /\ h_pc' = h_pc
                    /\ \A f \in DOMAIN kwargs : heap'[ref][f] = kwargs[f]
                    /\ history # <<>> => history'[1] = asdict(heap'[ref])
          /\ (h_pc # "returned" /\ ClearHistory(outcome)) =>
                /\ h_pc' = h_pc /\ history' = <<>>
                /\ active_downloads' = active_downloads /\ heap' = heap]_vars

\* the transfer completed, the write of the history failed after truncating the
\* file, and the CLI returned the completed record, which the ledger holds
C19_Witness ==
    /\ h_pc = "tracked" /\ ~history_file.valid
    /\ heap[h_ref].status = "completed"
    /\ active_downloads[m_url] = h_ref
    /\ history = <<asdict(heap[h_ref])>>

\* C20: a chunk fetch that fails (the request or the stream, which another
\* attempt may get through) is attempted again for the same range, up to
\* max_retries further times, so its task ends in an error that download_file
\* sees only after max_retries + 1 attempts.
C20_TransientRetried ==
    [][\A i \in DOMAIN t_pc :
          (i \in DOMAIN t_pc' /\ t_pc[i] \in {"request", "iter"} /\ t_pc'[i] = "failed")
              => attempts(t_pc'[i]) = max_retries + 1]_vars

\* C21: when an interrupt arrives while chunk tasks of a download are in
\* flight, every one of them is cancelled, the download is treated as failed
\* (the record's status becomes 'failed'), and the partially written
\* destination file does not exist afterwards.
C21_InterruptCleansUp ==
    [][(d_pc = "gather" /\ h_pc' = "cancelled") =>
          /\ t_pc' = <<>>
          /\ heap'[h_ref'].status = "failed"
          /\ dest' = "missing"]_vars

\* C22: during a batch download of any number of urls, the download calls in
\* flight at the same time never number more than max_concurrent_downloads.
C22_BatchBounded ==
    Cardinality(InFlight) <= max_concurrent_downloads

\* C23: with a server that answers a range with the same bytes every time,
\* every run of download_file that ends in success leaves the destination
\* holding exactly the resource's bytes, whatever the destination held before
\* and in whatever order the chunk tasks ran; two successful runs therefore
\* leave byte-identical files.
C23_SuccessLeavesResource ==
    (d_pc = "done" /\ d_result = "true") => (dest = "file" /\ file_data = Resource)

OneByteOff(c, d) ==
    /\ Len(c) = Len(d)
    /\ Cardinality({k \in DOMAIN c : c[k] # d[k]}) = 1

C25_InvalidPlanRejected ==
    (d_pc = "planned" /\ (connections < 1 \/ file_size < 1)) =>
        /\ d_error = "PlanningError"
        /\ chunks = <<>>

EmptyRange(r) == r.start > r.end

\* C26: a planned range that is empty (start > end) is complete at once: no
\* request is issued for it (its task never reads a response), it writes
\* nothing and it adds 0 to the byte total.
C26_EmptyRangeSkipped ==
    \A i \in DOMAIN t_pc :
        EmptyRange(chunks[i]) =>
            /\ t_pc[i] \in {"request", "done"}
            /\ t_bytes[i] = 0

\* the bytes of the block a step writes: some task goes from "seeked" back to
\* "iter"
Written ==
    SumSeq([i \in DOMAIN t_pc |->
              IF t_pc[i] = "seeked" /\ t_pc'[i] = "iter" THEN Len(t_block[i]) ELSE 0])

\* C27: within one download the shared progress total never decreases, every
\* step of a chunk task adds exactly the length of the block it wrote (no
\* increment is lost), and once all chunk tasks have succeeded the total is
\* the sum of the byte counts the tasks returned.
C27_ProgressCounts ==
    /\ []((d_pc = "gather" /\ \A i \in DOMAIN t_pc : t_pc[i] = "done")
             => progress_done = SumSeq(t_bytes))
    /\ [][(d_pc = "gather" /\ d_pc' = "gather") =>
            /\ progress_done' >= progress_done
            /\ progress_done' = progress_done + Written]_vars

\* C28: the destination exists (its parent directory with it) and has the
\* full byte length from before the first chunk task's first write, and its
\* length stays the byte length for as long as chunk tasks are writing.
C28_PresizedLengthFixed ==
    d_pc = "gather" => (dest = "file" /\ Len(file_data) = file_size)

\* C29: when download_file returns success, every chunk task has written
\* exactly end - start + 1 bytes for its range: a chunk whose response was
\* shorter than its range is in no successful download, whatever the other
\* chunks returned.
C29_SuccessMeansFullChunks ==
    (d_pc = "done" /\ d_result = "true") =>
        \A i \in DOMAIN t_pc : t_bytes[i] = chunks[i].end - chunks[i].start + 1

Failed == {i \in DOMAIN t_pc : t_pc[i] = "failed"}

\* C30: when several chunk tasks of a download have failed, the error the
\* download reports is the one raised by the failed chunk of lowest index,
\* in whatever order in time the tasks failed.
C30_LowestIndexError ==
    (d_pc = "done" /\ Cardinality(Failed) >= 2) =>
        /\ d_error = "Download failed: Chunk download failed"
        /\ \E i \in Failed :
              /\ \A j \in Failed : i <= j
              /\ d_cause = t_err[i]

\* both chunk tasks failed, the second before the first, and the download
\* reports the first chunk's exception, the later one in time
C30_Witness ==
    /\ d_pc = "done" /\ d_result = "false"
    /\ t_pc = <<"failed", "failed">>
    /\ t_err = <<2, 1>>
    /\ d_cause = 2

\* the downloads inside their with block, their operations not all resolved
SharedInFlight == {i \in DOMAIN s_pc : s_pc[i] \in {"entered", "probed"}}

\* C31: concurrent HTTP downloads through the one HTTPHandler do not
\* interfere: while a download is in flight (inside its with block, its
\* operations not all resolved) the session and the executor it uses are
\* open, and once every download has left its with block every session that
\* was opened is closed.
C31_SharedSessionStaysOpen ==
    /\ \A i \in SharedInFlight :
          /\ session_usable(s_sessions, s_downloader)
          /\ s_downloader.executor = "running"
    /\ (s_pc # <<>> /\ \A i \in DOMAIN s_pc : s_pc[i] = "exited")
          => \A k \in DOMAIN s_sessions : s_sessions[k] = "closed"

IsHttpUrl(url) == startswith(url, "http://") \/ startswith(url, "https://")

C33_ActiveHasHistory ==
    \A url \in UrlSpace :
        active_downloads[url] # 0 =>
            \E k \in DOMAIN history : history[k].url = url

\* C34: in every state of a record that a handler is producing or has
\* produced (before any caller of the ledger changes it), the completion
\* timestamp is set if and only if the status is 'completed', and the error
\* message is set only if the status is 'failed'.
C34_TimestampIffCompleted ==
    (h_ref # 0 /\ h_pc \notin {"tracked", "dropped"}) =>
        /\ heap[h_ref].completed_at # "None" <=> heap[h_ref].status = "completed"
        /\ heap[h_ref].error # "None" => heap[h_ref].status = "failed"

Terminal == {"completed", "failed"}

\* C35: in DownloadCLI.download_file a record reaches the ledger only after
\* its handler has returned: the step that first changes the active map is
\* taken from the handler's return, and it leaves every entry of the active
\* map and every history snapshot with status 'completed' or 'failed'; no
\* step removes an entry from the active map; a transfer whose handler raised
\* has no ledger entry.
C35_LedgerOnlyTerminal ==
    /\ [](h_pc \in {"raised", "dropped", "cancelled"} =>
            /\ history = <<>>
            /\ \A url \in UrlSpace : active_downloads[url] = 0)
    /\ [][/\ active_downloads' # active_downloads => h_pc = "returned"
          /\ (h_pc = "returned" /\ h_pc' # h_pc) =>
                /\ \A url \in UrlSpace :
                      active_downloads'[url] # 0 =>
                          heap'[active_downloads'[url]].status \in Terminal
                /\ \A k \in DOMAIN history' : history'[k].status \in Terminal
          /\ \A url \in UrlSpace :
                active_downloads[url] # 0 => active_downloads'[url] # 0]_vars

\* the HTTP handler returned a failed record and the CLI handed it to the
\* ledger: it is active and its snapshot is in the history
C35_Witness ==
    /\ h_pc = "tracked"
    /\ active_downloads[m_url] = h_ref
    /\ heap[h_ref].status = "failed" /\ heap[h_ref].error = "Download failed"
    /\ Len(history) = 1 /\ history[1].status = "failed"
    /\ history_file.valid

\* C36: download_file ends every call by returning a boolean: a failure of
\* any kind is the return value False, and no exception leaves the call.
C36_NeverRaises ==
    d_pc = "done" => d_result \in {"true", "false"}

\* C37: update_download(url, changes) for a url that is not a key of the
\* active map changes nothing: the active map, the records, the history in
\* memory and the history file are left as they were, and the call returns
\* without an error.
C37_InactiveUpdateIsNoOp ==
    [][\A url \in LUrls, kwargs \in LKwargs, outcome \in LOutcomes :
          (active_downloads[url] = 0 /\ LUpdate(url, kwargs, outcome)) =>
              /\ active_downloads' = active_downloads
              /\ heap' = heap
              /\ history' = history
              /\ history_file' = history_file]_vars

\* the last call was an update of a url that is not active, made on a ledger
\* that holds another url's record and whose file a failed write had left
\* truncated: the file is still as it was
C37_Witness ==
    /\ l_last = [op |-> "update", url |-> HUrl, active |-> FALSE]
    /\ active_downloads[HUrl] = 0
    /\ \E url \in LUrls : active_downloads[url] # 0
    /\ history # <<>>
    /\ ~history_file.valid

\* C38: when every network operation returns or fails, every download_file
\* call that has started returns, and the record of every download the
\* HTTP handler has started reaches status 'completed' or 'failed': none
\* stays in 'starting' or 'downloading' forever.
C38_EventuallyTerminal ==
    /\ (d_pc \in {"probe", "open", "gather"}) ~> (d_pc = "done")
    /\ (h_pc \in {"probe", "download"} /\ heap[h_ref].file_type = "http")
          ~> (h_ref # 0 /\ heap[h_ref].status \in Terminal)

====
